---- MODULE Spec2Model ----
(***************************************************************************)
(* A model of the job-board plumbing: the HTTP middleware                  *)
(* (package middleware), the hot-reloading template renderer (package      *)
(* template) and the SQL user repository (package user).                   *)
(*                                                                         *)
(* The three packages share no state.  Each has its own specification      *)
(* (SpecMw, SpecTmpl, SpecRepo) that moves its own variables and leaves    *)
(* the others at their initial value.                                      *)
(***************************************************************************)
EXTENDS Integers, Sequences, FiniteSets, TLC

VARIABLES
    \* package middleware: the request being answered and what came of it
    mw,          \* which middleware answered the last request ("none" before any)
    mwEnv,       \* the env string the middleware was built with
    req,         \* the request
    w,           \* the http.ResponseWriter: status written and Location header
    nextCalls,   \* how often the wrapped handler was invoked for the request
    ctx,         \* the "authToken" value of the context the wrapped handler saw
    panicked,    \* the handler goroutine panicked (net/http aborts the response)
    \* package template
    tEnv,        \* the env string given to NewTemplate
    proc,        \* "init" before NewTemplate, "running", or "crashed" (panic)
    filesOk,     \* the files matched by static/views/*.html parse
    filesVer,    \* the revision of the files on disk
    templates,   \* t.templates: 0 is nil, n > 0 the set parsed from revision n
    watching,    \* the watcher goroutine exists
    events,      \* watcher.Events, the channel of pending fsnotify events
    lastReload,  \* what the last reload by the watcher goroutine came to
    rpc,         \* per Render call: "idle", "loaded" (t.templates read), "done"
    rset,        \* per Render call: the template set it read
    \* package user: the database and the last call's result
    users,               \* table users, a set of rows
    user_sign_on_token,  \* table user_sign_on_token
    recruiter_profile,   \* emails of table recruiter_profile
    developer_profile,   \* emails of table developer_profile
    nextKsuid,           \* ksuid.NewRandom: ids handed out so far
    last,                \* the last repository call: arguments, queries, result
    track,               \* per id: the user given to CreateUser and the tokens set since
    tokIds,              \* per token: ids returned by successful GetOrCreateUserFromToken
    tokCreated           \* per token: users rows GetOrCreateUserFromToken inserted

mwVars == <<mw, mwEnv, req, w, nextCalls, ctx, panicked>>
tmplVars == <<tEnv, proc, filesOk, filesVer, templates, watching, events,
              lastReload, rpc, rset>>
repoVars == <<users, user_sign_on_token, recruiter_profile, developer_profile,
              nextKsuid, last, track, tokIds, tokCreated>>
vars == <<mwVars, tmplVars, repoVars>>

(***************************************************************************)
(*                          package middleware                             *)
(***************************************************************************)

StatusMovedPermanently == 301
StatusSeeOther == 303
StatusUnauthorized == 401

Envs == {"dev", "prod"}
Paths == {"", "/jobs", "/profile/edit"}
Hosts == {"job.example", "www.job.example"}
Protos == {"", "http", "https"}

\* What a string stored under "jwt" can be, as far as the JWT parser tells:
\* "garbage" is not three dot-separated segments, "undecodable" has three
\* segments that do not decode, "badsig" is signed with another key, "expired"
\* is past its exp claim, "user" and "admin" are valid with IsAdmin false/true.
TokenForms == {"garbage", "undecodable", "badsig", "expired", "user", "admin"}

\* sess.Values["jwt"]: absent, a value that is no string, or a string.  idp
\* tells whether the identity provider accepts the string as an ID token.
SessionValues ==
    {[kind |-> "absent", form |-> "", idp |-> FALSE],
     [kind |-> "nonstring", form |-> "", idp |-> FALSE]}
    \cup [kind : {"string"}, form : TokenForms, idp : BOOLEAN]

\* sessErr: sessionStore.Get returns an error for the request's cookie.
Requests == [sessErr : BOOLEAN, jwt : SessionValues, path : Paths,
             host : Hosts, proto : Protos]

\* Requests without a session cookie, as the HTTPS redirect sees them, and
\* requests over https to one host, as the authentication middleware sees them.
PlainRequests == {r \in Requests : ~r.sessErr /\ r.jwt.kind = "absent"}
SessionRequests == {r \in Requests : r.host = "job.example" /\ r.proto = "https"}

NoRequest == [sessErr |-> FALSE, jwt |-> [kind |-> "absent", form |-> "", idp |-> FALSE],
              path |-> "", host |-> "job.example", proto |-> ""]

NoToken == [nil |-> TRUE, raw |-> [kind |-> "absent", form |-> "", idp |-> FALSE]]
NoCtx == [has |-> FALSE, authToken |-> NoToken]
FreshWriter == [status |-> 0, location |-> ""]

ErrNoAuthSession == "no authentication session"
ErrNoAuthCookie == "no authentication cookie"
ErrTokenVerificationFailed == "token verification failed"

\* http.Redirect: sets the Location header and writes the status.
Redirect(rw, target, code) ==
    IF rw.status = 0 THEN [status |-> code, location |-> target] ELSE rw

\* w.WriteHeader
WriteHeader(rw, code) ==
    IF rw.status = 0 THEN [rw EXCEPT !.status = code] ELSE rw

\* jwt.ParseWithClaims(tk, &UserJWT{}, keyFunc): the *Token it returns.  A
\* string that is not three segments yields a nil token (and an error the
\* callers drop); every other string yields a token whose Valid is set only
\* when signature and expiry check out.
ParseWithClaims(tk) ==
    IF tk.form = "garbage"
    THEN [nil |-> TRUE, Valid |-> FALSE, IsAdmin |-> FALSE]
    ELSE [nil |-> FALSE,
          Valid |-> tk.form \in {"user", "admin"},
          IsAdmin |-> tk.form = "admin"]

\* authClient.VerifyIDToken
VerifyIDToken(tk) ==
    IF tk.idp THEN [err |-> "nil", token |-> [nil |-> FALSE, raw |-> tk]]
    ELSE [err |-> "rejected", token |-> NoToken]

authenticateFromCookie(r) ==
    IF r.sessErr THEN [token |-> NoToken, err |-> ErrNoAuthSession]
    ELSE IF r.jwt.kind # "string" THEN [token |-> NoToken, err |-> ErrNoAuthCookie]
    ELSE IF VerifyIDToken(r.jwt).err # "nil"
         THEN [token |-> NoToken, err |-> ErrTokenVerificationFailed]
    ELSE [token |-> VerifyIDToken(r.jwt).token, err |-> "nil"]

\* The outcome of one request: the writer, the calls of the wrapped handler,
\* the context it was called with, and whether the handler panicked.
Outcome(rw, calls, c, p) == [w |-> rw, nextCalls |-> calls, ctx |-> c, panicked |-> p]

HTTPSOutcome(env, r) ==
    LET redirected == env # "dev" /\ r.proto # "https"
        rw == IF redirected
              THEN Redirect(FreshWriter, "https://" \o r.host \o r.path,
                            StatusMovedPermanently)
              ELSE FreshWriter
    IN  \* no return after the redirect: next.ServeHTTP runs in both cases
        Outcome(rw, 1, NoCtx, FALSE)

AdminOutcome(r) ==
    LET denied == Outcome(Redirect(FreshWriter, "/auth", StatusUnauthorized), 0, NoCtx, FALSE)
        token == ParseWithClaims(r.jwt)
    IN  IF r.sessErr THEN denied
        ELSE IF r.jwt.kind # "string" THEN denied
        ELSE IF token.nil THEN Outcome(FreshWriter, 0, NoCtx, TRUE)  \* token.Valid on nil
        ELSE IF ~token.Valid THEN denied
        ELSE IF ~token.IsAdmin THEN denied
        ELSE Outcome(FreshWriter, 1, NoCtx, FALSE)

\* UserAuthenticatedMiddleware without the return that follows the 401.
UserOutcome_NoReturn(r) ==
    LET a == authenticateFromCookie(r)
    IN  IF a.err # "nil"
        THEN Outcome(WriteHeader(FreshWriter, StatusUnauthorized), 1,
                     [has |-> TRUE, authToken |-> a.token], FALSE)
        ELSE Outcome(FreshWriter, 1, [has |-> TRUE, authToken |-> a.token], FALSE)

UserOutcome(r) ==
    LET a == authenticateFromCookie(r)
    IN  IF a.err # "nil"
        THEN Outcome(WriteHeader(FreshWriter, StatusUnauthorized), 0, NoCtx, FALSE)
        ELSE Outcome(FreshWriter, 1, [has |-> TRUE, authToken |-> a.token], FALSE)

DirectTo(r) == IF r.path = "" THEN "/profile/home" ELSE r.path

UserPageOutcome(r) ==
    LET a == authenticateFromCookie(r)
    IN  IF a.err = ErrNoAuthSession \/ a.err = ErrNoAuthCookie
        THEN Outcome(Redirect(FreshWriter, "/auth", StatusUnauthorized), 0, NoCtx, FALSE)
        ELSE IF a.err = ErrTokenVerificationFailed
        THEN Outcome(Redirect(FreshWriter, "/autologin?directto=" \o DirectTo(r),
                              StatusSeeOther), 0, NoCtx, FALSE)
        ELSE Outcome(FreshWriter, 1, [has |-> TRUE, authToken |-> a.token], FALSE)

\* The request is answered: what the client and the wrapped handler got.
Respond(o) ==
    /\ w' = o.w
    /\ nextCalls' = o.nextCalls
    /\ ctx' = o.ctx
    /\ panicked' = o.panicked

HTTPSMiddleware ==
    \E env \in Envs, r \in PlainRequests :
        /\ mw' = "HTTPS"
        /\ mwEnv' = env
        /\ req' = r
        /\ Respond(HTTPSOutcome(env, r))
        /\ UNCHANGED <<tmplVars, repoVars>>

AdminAuthenticatedMiddleware ==
    \E r \in SessionRequests :
        /\ mw' = "Admin"
        /\ mwEnv' = "prod"
        /\ req' = r
        /\ Respond(AdminOutcome(r))
        /\ UNCHANGED <<tmplVars, repoVars>>

UserAuthenticatedMiddleware ==
    \E r \in SessionRequests :
        /\ mw' = "User"
        /\ mwEnv' = "prod"
        /\ req' = r
        /\ Respond(UserOutcome(r))
        /\ UNCHANGED <<tmplVars, repoVars>>

UserAuthenticatedPageMiddleware ==
    \E r \in SessionRequests :
        /\ mw' = "UserPage"
        /\ mwEnv' = "prod"
        /\ req' = r
        /\ Respond(UserPageOutcome(r))
        /\ UNCHANGED <<tmplVars, repoVars>>

MwInit ==
    /\ mw = "none"
    /\ mwEnv = "prod"
    /\ req = NoRequest
    /\ w = FreshWriter
    /\ nextCalls = 0
    /\ ctx = NoCtx
    /\ panicked = FALSE

(***************************************************************************)
(*                           package template                              *)
(***************************************************************************)

MaxEdits == 2      \* edits of the template files after startup
MaxEvents == 2     \* events pending in watcher.Events
NumRenders == 2    \* request goroutines calling Render

Renders == 1..NumRenders

\* What a Render call holds once it has read t.templates: the set (by the
\* revision it was parsed from, 0 for nil) and how much of the set the
\* reading goroutine sees.
NoSet == [ptr |-> 0, view |-> "complete"]

\* The set NewTemplate stores is built before any other goroutine exists, so
\* every reader sees all of it.  A set stored by the watcher goroutine is
\* published by a plain store with nothing ordering the stores that built it
\* before the store of the pointer: a reader that sees the new pointer sees
\* either the finished set or one whose fields are still partly the zero
\* value.
Views(ptr) == IF ptr = 1 THEN {"complete"} ELSE {"complete", "partial"}

\* customtemplate.Must(... ParseGlob(glob)): the parsed set, or a panic.
createTemplateFromGlob == IF filesOk THEN [panic |-> FALSE, set |-> filesVer]
                          ELSE [panic |-> TRUE, set |-> 0]

\* NewTemplate(env).  watcherErr: fsnotify.NewWatcher or watcher.Add fails.
NewTemplate ==
    /\ proc = "init"
    /\ \E watcherErr \in BOOLEAN :
         LET t == createTemplateFromGlob
         IN  IF t.panic \/ (tEnv = "dev" /\ watcherErr)
             THEN /\ proc' = "crashed"
                  /\ UNCHANGED <<templates, watching>>
             ELSE /\ proc' = "running"
                  /\ templates' = t.set
                  /\ watching' = (tEnv = "dev")
    /\ UNCHANGED <<tEnv, filesOk, filesVer, events, lastReload, rpc, rset>>
    /\ UNCHANGED <<mwVars, repoVars>>

\* Someone saves a template file: the directory holds a new revision, which
\* parses or not, and the watcher (if any) queues a Write event.
EditFiles ==
    /\ proc = "running"
    /\ filesVer <= MaxEdits
    /\ Len(events) < MaxEvents
    /\ filesVer' = filesVer + 1
    /\ filesOk' \in BOOLEAN
    /\ events' = IF watching THEN Append(events, "write") ELSE events
    /\ UNCHANGED <<tEnv, proc, templates, watching, lastReload, rpc, rset>>
    /\ UNCHANGED <<mwVars, repoVars>>

\* A change that is no write (chmod): an event, the files as they were.
TouchFiles ==
    /\ proc = "running"
    /\ watching
    /\ Len(events) < MaxEvents
    /\ events' = Append(events, "chmod")
    /\ UNCHANGED <<tEnv, proc, filesOk, filesVer, templates, watching, lastReload, rpc, rset>>
    /\ UNCHANGED <<mwVars, repoVars>>

\* One turn of the watcher goroutine's loop on watcher.Events.
WatcherEvent ==
    /\ proc = "running"
    /\ watching
    /\ events # <<>>
    /\ events' = Tail(events)
    /\ IF Head(events) = "write"
       THEN LET t == createTemplateFromGlob
            IN  IF t.panic
                THEN \* Must panics in the goroutine; nothing recovers it
                     /\ proc' = "crashed"
                     /\ lastReload' = "failed"
                     /\ UNCHANGED templates
                ELSE /\ templates' = t.set
                     /\ lastReload' = "ok"
                     /\ UNCHANGED proc
       ELSE UNCHANGED <<proc, templates, lastReload>>
    /\ UNCHANGED <<tEnv, filesOk, filesVer, watching, rpc, rset>>
    /\ UNCHANGED <<mwVars, repoVars>>

\* Render, first half: w.WriteHeader(status) and the read of t.templates.
RenderLoad(r) ==
    /\ proc = "running"
    /\ rpc[r] # "loaded"
    /\ \E v \in Views(templates) :
         rset' = [rset EXCEPT ![r] = [ptr |-> templates, view |-> v]]
    /\ rpc' = [rpc EXCEPT ![r] = "loaded"]
    /\ UNCHANGED <<tEnv, proc, filesOk, filesVer, templates, watching, events, lastReload>>
    /\ UNCHANGED <<mwVars, repoVars>>

\* Render, second half: ExecuteTemplate on the set that was read.
RenderExecute(r) ==
    /\ proc = "running"
    /\ rpc[r] = "loaded"
    /\ rpc' = [rpc EXCEPT ![r] = "done"]
    /\ UNCHANGED <<tEnv, proc, filesOk, filesVer, templates, watching, events, lastReload, rset>>
    /\ UNCHANGED <<mwVars, repoVars>>

Render == \E r \in Renders : RenderLoad(r) \/ RenderExecute(r)

TmplIdle ==
    /\ tEnv = "prod"
    /\ proc = "init"
    /\ filesOk = TRUE
    /\ filesVer = 1
    /\ templates = 0
    /\ watching = FALSE
    /\ events = <<>>
    /\ lastReload = "none"
    /\ rpc = [r \in Renders |-> "idle"]
    /\ rset = [r \in Renders |-> NoSet]

TmplInit ==
    /\ tEnv \in Envs
    /\ proc = "init"
    /\ filesOk \in BOOLEAN
    /\ filesVer = 1
    /\ templates = 0
    /\ watching = FALSE
    /\ events = <<>>
    /\ lastReload = "none"
    /\ rpc = [r \in Renders |-> "idle"]
    /\ rset = [r \in Renders |-> NoSet]

(***************************************************************************)
(*                             package user                                *)
(***************************************************************************)

MaxCreated == 1    \* rows of table users inserted by CreateUser
MaxKsuid == 2      \* ids drawn from ksuid.NewRandom

UserTypeDeveloper == "jobseeker"
UserTypeRecruiter == "workerseeker"

Ids == {"u1", "u2"}
Emails == {"a@x", "b@x"}
ProfileEmails == {"a@x"}     \* emails the profile tables may hold
Tokens == {"t1", "t2"}
AccessTokens == {"at1", "at2"}
RefreshTokens == {"rt1"}
Clock == {2}                 \* time.Now(); 0 is the zero time.Time

ErrNoRows == "sql: no rows in result set"
ErrDriver == "driver: bad connection"
ErrTokenNotFound == "token not found"
ErrKsuid == "ksuid: no entropy"

\* A column value as database/sql scans it into sql.NullString, sql.NullTime
\* and sql.NullBool: Valid is false for NULL, and V is then the zero value.
Val(v) == [Valid |-> TRUE, V |-> v]
NullS == [Valid |-> FALSE, V |-> ""]
NullT == [Valid |-> FALSE, V |-> 0]
NullB == [Valid |-> FALSE, V |-> FALSE]

\* type User, without IsAdmin (never set by the repository) and
\* CreatedAtHumanised (CreatedAt as words relative to the wall clock).
ZeroUser == [ID |-> "", Email |-> "", EmailVerified |-> FALSE, AccessToken |-> "",
             RefreshToken |-> "", ExpirationTime |-> 0, CreatedAt |-> 0, Type |-> ""]

\* The users handed to CreateUser.
SampleUsers ==
    {[ID |-> "u1", Email |-> "a@x", EmailVerified |-> TRUE, AccessToken |-> "at0",
      RefreshToken |-> "rt0", ExpirationTime |-> 2, CreatedAt |-> 1,
      Type |-> UserTypeDeveloper],
     [ID |-> "u2", Email |-> "b@x", EmailVerified |-> FALSE, AccessToken |-> "",
      RefreshToken |-> "", ExpirationTime |-> 0, CreatedAt |-> 2,
      Type |-> UserTypeRecruiter]}

\* The sign-on token handed to SaveTokenSignOn.
SampleSignOns ==
    {[token |-> "t1", email |-> "a@x", user_type |-> UserTypeDeveloper]}

\* Rows of users that carry a sign-on token in column token, the column
\* GetOrCreateUserFromToken selects on.  No statement of the repository writes
\* that column, so such rows are in the database the repository is given:
\* one with a NULL email (the shape the "create new one" branch expects), one
\* of a user that exists, one with a NULL access_token.
SeedRows ==
    {[id |-> Val("s1"), email |-> NullS, created_at |-> NullT,
      user_type |-> Val(UserTypeDeveloper), email_verified |-> NullB,
      access_token |-> Val("at7"), refresh_token |-> NullS,
      expiration_time |-> NullT, token |-> Val("t1")],
     [id |-> Val("s2"), email |-> Val("b@x"), created_at |-> Val(1),
      user_type |-> Val(UserTypeRecruiter), email_verified |-> Val(TRUE),
      access_token |-> Val("at9"), refresh_token |-> NullS,
      expiration_time |-> Val(2), token |-> Val("t2")],
     [id |-> Val("s3"), email |-> Val("a@x"), created_at |-> Val(2),
      user_type |-> Val(UserTypeDeveloper), email_verified |-> NullB,
      access_token |-> NullS, refresh_token |-> NullS,
      expiration_time |-> NullT, token |-> Val("t1")]}

NoRow == [id |-> NullS, email |-> NullS, created_at |-> NullT, user_type |-> NullS,
          email_verified |-> NullB, access_token |-> NullS, refresh_token |-> NullS,
          expiration_time |-> NullT, token |-> NullS]

\* ksuid.NewRandom(): the n-th id drawn; ids never repeat.
Ksuid(n) == IF n = 1 THEN "k1" ELSE IF n = 2 THEN "k2" ELSE IF n = 3 THEN "k3" ELSE "k4"

\* The rows of users satisfying WHERE col = v (NULL = v is never true).
Where(col, v) == {row \in users : row[col] = Val(v)}

\* db.QueryRow(...).Scan(...) on users: the possible results, since without
\* ORDER BY any matching row may come first.  fail: the driver reports an error.
QueryRow(rows, fail) ==
    IF fail THEN {[err |-> ErrDriver, row |-> NoRow]}
    ELSE IF rows = {} THEN {[err |-> ErrNoRows, row |-> NoRow]}
    ELSE {[err |-> "nil", row |-> row] : row \in rows}

\* The same on a profile table, whose SELECT yields a constant.
QueryProfile(table, email, fail) ==
    IF fail THEN ErrDriver ELSE IF email \in table THEN "nil" ELSE ErrNoRows

NoTrack == [on |-> FALSE, u |-> ZeroUser]
NoLast == [op |-> "none"]

Untracked == [id \in Ids |-> NoTrack]
NoTokIds == [t \in Tokens |-> {}]
NoTokCreated == [t \in Tokens |-> 0]

\* The row INSERT INTO users (id, email, created_at, user_type, email_verified,
\* access_token, refresh_token, expiration_time) makes of a User.
RowOfUser(u) ==
    [id |-> Val(u.ID), email |-> Val(u.Email), created_at |-> Val(u.CreatedAt),
     user_type |-> Val(u.Type), email_verified |-> Val(u.EmailVerified),
     access_token |-> Val(u.AccessToken), refresh_token |-> Val(u.RefreshToken),
     expiration_time |-> Val(u.ExpirationTime), token |-> NullS]

\* The row INSERT INTO users (id, email, created_at, user_type) makes.
RowOfNewUser(u) ==
    [id |-> Val(u.ID), email |-> Val(u.Email), created_at |-> Val(u.CreatedAt),
     user_type |-> Val(u.Type), email_verified |-> NullB,
     access_token |-> NullS, refresh_token |-> NullS,
     expiration_time |-> NullT, token |-> NullS]

SaveTokenSignOn ==
    \E s \in SampleSignOns, fail \in BOOLEAN :
        /\ user_sign_on_token' = IF fail THEN user_sign_on_token
                                 ELSE user_sign_on_token \cup {s}
        /\ last' = [op |-> "SaveTokenSignOn", arg |-> s,
                    ret |-> [err |-> IF fail THEN ErrDriver ELSE "nil"]]
        /\ UNCHANGED <<users, recruiter_profile, developer_profile, nextKsuid,
                       track, tokIds, tokCreated>>
        /\ UNCHANGED <<mwVars, tmplVars>>

\* What GetUser returns for a QueryRow result.  expiration_time is scanned but
\* not copied into the User.
GetUserResult(q) ==
    IF q.err = ErrNoRows THEN [found |-> FALSE, u |-> ZeroUser, err |-> "nil"]
    ELSE IF q.err # "nil" THEN [found |-> FALSE, u |-> ZeroUser, err |-> q.err]
    ELSE [found |-> TRUE,
          u |-> [ZeroUser EXCEPT !.ID = q.row.id.V, !.Email = q.row.email.V,
                                 !.EmailVerified = q.row.email_verified.V,
                                 !.AccessToken = q.row.access_token.V,
                                 !.RefreshToken = q.row.refresh_token.V,
                                 !.CreatedAt = q.row.created_at.V,
                                 !.Type = q.row.user_type.V],
          err |-> "nil"]

GetUser ==
    \E user_id \in Ids, fail \in BOOLEAN :
      \E q \in QueryRow(Where("id", user_id), fail) :
        /\ last' = [op |-> "GetUser", arg |-> [user_id |-> user_id],
                    qerrs |-> <<q.err>>, ret |-> GetUserResult(q)]
        /\ UNCHANGED <<users, user_sign_on_token, recruiter_profile, developer_profile,
                       nextKsuid, track, tokIds, tokCreated>>
        /\ UNCHANGED <<mwVars, tmplVars>>

\* track follows a user from the CreateUser that made the only row of its id.
CreateUser ==
    \E u \in SampleUsers, fail \in BOOLEAN :
        /\ Cardinality({row \in users : row.id.V \in Ids}) < MaxCreated
        /\ users' = IF fail THEN users ELSE users \cup {RowOfUser(u)}
        /\ last' = [op |-> "CreateUser", arg |-> u,
                    ret |-> [err |-> IF fail THEN ErrDriver ELSE "nil"]]
        /\ track' = IF fail THEN track
                    ELSE [track EXCEPT ![u.ID] =
                            IF Where("id", u.ID) = {} THEN [on |-> TRUE, u |-> u]
                            ELSE NoTrack]
        /\ tokIds' = IF fail THEN tokIds ELSE NoTokIds
        /\ tokCreated' = IF fail THEN tokCreated ELSE NoTokCreated
        /\ UNCHANGED <<user_sign_on_token, recruiter_profile, developer_profile, nextKsuid>>
        /\ UNCHANGED <<mwVars, tmplVars>>

\* UPDATE users SET <col> = v WHERE id = userId
UpdateColumn(col, userId, v) ==
    {IF row.id = Val(userId) THEN [row EXCEPT ![col] = Val(v)] ELSE row : row \in users}

UpdateAccessToken ==
    \E userId \in Ids, accessToken \in AccessTokens, fail \in BOOLEAN :
        /\ users' = IF fail THEN users ELSE UpdateColumn("access_token", userId, accessToken)
        /\ last' = [op |-> "UpdateAccessToken",
                    arg |-> [userId |-> userId, accessToken |-> accessToken],
                    ret |-> [err |-> IF fail THEN ErrDriver ELSE "nil"]]
        /\ track' = IF fail \/ ~track[userId].on THEN track
                    ELSE [track EXCEPT ![userId].u.AccessToken = accessToken]
        /\ UNCHANGED <<user_sign_on_token, recruiter_profile, developer_profile,
                       nextKsuid, tokIds, tokCreated>>
        /\ UNCHANGED <<mwVars, tmplVars>>

UpdateRefreshToken ==
    \E userId \in Ids, refreshToken \in RefreshTokens, fail \in BOOLEAN :
        /\ users' = IF fail THEN users ELSE UpdateColumn("refresh_token", userId, refreshToken)
        /\ last' = [op |-> "UpdateRefreshToken",
                    arg |-> [userId |-> userId, refreshToken |-> refreshToken],
                    ret |-> [err |-> IF fail THEN ErrDriver ELSE "nil"]]
        /\ track' = IF fail \/ ~track[userId].on THEN track
                    ELSE [track EXCEPT ![userId].u.RefreshToken = refreshToken]
        /\ UNCHANGED <<user_sign_on_token, recruiter_profile, developer_profile,
                       nextKsuid, tokIds, tokCreated>>
        /\ UNCHANGED <<mwVars, tmplVars>>

\* GetOrCreateUserFromToken(token).  fault: the step at which the driver or
\* ksuid reports an error, if any.  The SELECT reads table users by its column
\* token; table user_sign_on_token is not read.
GetOrCreateUserFromToken ==
    \E token \in Tokens, fault \in {"none", "query", "ksuid", "insert"} :
      \E q \in QueryRow(Where("token", token), fault = "query") :
        LET call(qerrs, ret) ==
                [op |-> "GetOrCreateUserFromToken", arg |-> [token |-> token],
                 pre |-> users, qerrs |-> qerrs, ret |-> ret]
            failed(qerrs, err) ==
                /\ last' = call(qerrs, [u |-> ZeroUser, existed |-> FALSE, err |-> err])
                /\ UNCHANGED <<users, nextKsuid, tokIds, tokCreated>>
        IN  /\ IF q.err # "nil" THEN failed(<<q.err>>, q.err)
               ELSE IF ~q.row.access_token.Valid
               THEN failed(<<q.err>>, ErrTokenNotFound)
               ELSE IF ~q.row.email.Valid
               THEN \* user not found create new one
                    IF fault = "ksuid" THEN failed(<<q.err>>, ErrKsuid)
                    ELSE IF fault = "insert" THEN failed(<<q.err, ErrDriver>>, ErrDriver)
                    ELSE \E now \in Clock :
                           LET u == [ZeroUser EXCEPT
                                       !.ID = Ksuid(nextKsuid + 1),
                                       !.Email = q.row.access_token.V,
                                       !.CreatedAt = now,
                                       !.Type = q.row.user_type.V]
                           IN  /\ nextKsuid < MaxKsuid
                               /\ nextKsuid' = nextKsuid + 1
                               /\ users' = users \cup {RowOfNewUser(u)}
                               /\ last' = call(<<q.err, "nil">>,
                                               [u |-> u, existed |-> FALSE, err |-> "nil"])
                               /\ tokIds' = [tokIds EXCEPT ![token] = @ \cup {u.ID}]
                               /\ tokCreated' = [tokCreated EXCEPT ![token] = @ + 1]
               ELSE LET u == [ZeroUser EXCEPT !.ID = q.row.id.V, !.Email = q.row.email.V,
                                              !.CreatedAt = q.row.created_at.V,
                                              !.Type = q.row.user_type.V]
                    IN  /\ last' = call(<<q.err>>, [u |-> u, existed |-> TRUE, err |-> "nil"])
                        /\ tokIds' = [tokIds EXCEPT ![token] = @ \cup {u.ID}]
                        /\ UNCHANGED <<users, nextKsuid, tokCreated>>
            /\ UNCHANGED <<user_sign_on_token, recruiter_profile, developer_profile, track>>
            /\ UNCHANGED <<mwVars, tmplVars>>

DeleteUserByEmail ==
    \E email \in Emails, fail \in BOOLEAN :
        /\ users' = IF fail THEN users ELSE {row \in users : row.email # Val(email)}
        /\ last' = [op |-> "DeleteUserByEmail", arg |-> [email |-> email],
                    ret |-> [err |-> IF fail THEN ErrDriver ELSE "nil"]]
        /\ track' = IF fail THEN track
                    ELSE [id \in Ids |->
                            IF track[id].on /\ track[id].u.Email = email
                            THEN NoTrack ELSE track[id]]
        /\ tokIds' = IF fail THEN tokIds ELSE NoTokIds
        /\ tokCreated' = IF fail THEN tokCreated ELSE NoTokCreated
        /\ UNCHANGED <<user_sign_on_token, recruiter_profile, developer_profile, nextKsuid>>
        /\ UNCHANGED <<mwVars, tmplVars>>

\* The fallback with the two profile queries in the other order.
ProfileFallback_DeveloperFirst(e1, e2, e3) ==
    IF e3 = "nil" THEN [userType |-> "developer", err |-> "nil", qerrs |-> <<e1, e3>>]
    ELSE IF e2 = "nil"
    THEN [userType |-> "recruiter", err |-> "nil", qerrs |-> <<e1, e3, e2>>]
    ELSE [userType |-> "", err |-> e2, qerrs |-> <<e1, e3, e2>>]

\* The fallback of GetUserTypeByEmail once the users query found no row.
\* e2 and e3 are the errors of the recruiter_profile and developer_profile
\* queries; the second query runs only when the first gives any error.
ProfileFallback(e1, e2, e3) ==
    IF e2 = "nil" THEN [userType |-> "recruiter", err |-> "nil", qerrs |-> <<e1, e2>>]
    ELSE IF e3 = "nil"
    THEN [userType |-> "developer", err |-> "nil", qerrs |-> <<e1, e2, e3>>]
    ELSE [userType |-> "", err |-> e3, qerrs |-> <<e1, e2, e3>>]

\* What GetUserTypeByEmail(email) can return.  fails: the tables whose query
\* the driver fails.
GetUserTypeByEmailResults(email, fails) ==
    {IF q.err = ErrNoRows
     THEN ProfileFallback(q.err,
                          QueryProfile(recruiter_profile, email, "recruiter_profile" \in fails),
                          QueryProfile(developer_profile, email, "developer_profile" \in fails))
     ELSE IF q.err # "nil" THEN [userType |-> "", err |-> q.err, qerrs |-> <<q.err>>]
     ELSE [userType |-> q.row.user_type.V, err |-> "nil", qerrs |-> <<q.err>>]
     : q \in QueryRow(Where("email", email), "users" \in fails)}

GetUserTypeByEmail ==
    \E email \in Emails,
       fails \in SUBSET {"users", "recruiter_profile", "developer_profile"} :
      \E res \in GetUserTypeByEmailResults(email, fails) :
        /\ last' = [op |-> "GetUserTypeByEmail", arg |-> [email |-> email],
                    qerrs |-> res.qerrs,
                    ret |-> [userType |-> res.userType, err |-> res.err]]
        /\ UNCHANGED <<users, user_sign_on_token, recruiter_profile, developer_profile,
                       nextKsuid, track, tokIds, tokCreated>>
        /\ UNCHANGED <<mwVars, tmplVars>>

\* NewRepository(db): the repository wraps the database it is given.  Its
\* users table is empty or holds one of SeedRows; its profile tables hold any
\* of ProfileEmails (when users is empty, to keep the state space small).
RepoInit ==
    /\ users \in {{}} \cup {{s} : s \in SeedRows}
    /\ user_sign_on_token = {}
    /\ recruiter_profile \in SUBSET ProfileEmails
    /\ developer_profile \in SUBSET ProfileEmails
    /\ users # {} => recruiter_profile = {} /\ developer_profile = {}
    /\ nextKsuid = 0
    /\ last = NoLast
    /\ track = Untracked
    /\ tokIds = NoTokIds
    /\ tokCreated = NoTokCreated

RepoIdle ==
    /\ users = {}
    /\ user_sign_on_token = {}
    /\ recruiter_profile = {}
    /\ developer_profile = {}
    /\ nextKsuid = 0
    /\ last = NoLast
    /\ track = Untracked
    /\ tokIds = NoTokIds
    /\ tokCreated = NoTokCreated

(***************************************************************************)
(*                           specifications                                *)
(***************************************************************************)

MwNext ==
    \/ HTTPSMiddleware
    \/ AdminAuthenticatedMiddleware
    \/ UserAuthenticatedMiddleware
    \/ UserAuthenticatedPageMiddleware

TmplNext ==
    \/ NewTemplate
    \/ EditFiles
    \/ TouchFiles
    \/ WatcherEvent
    \/ Render

RepoNext ==
    \/ SaveTokenSignOn
    \/ GetUser
    \/ CreateUser
    \/ UpdateAccessToken
    \/ UpdateRefreshToken
    \/ GetOrCreateUserFromToken
    \/ DeleteUserByEmail
    \/ GetUserTypeByEmail

InitMw == MwInit /\ TmplIdle /\ RepoIdle
InitTmpl == MwInit /\ TmplInit /\ RepoIdle
InitRepo == MwInit /\ TmplIdle /\ RepoInit

SpecMw == InitMw /\ [][MwNext]_vars
SpecTmpl == InitTmpl /\ [][TmplNext]_vars
SpecRepo == InitRepo /\ [][RepoNext]_vars

(***************************************************************************)
(*                               claims                                    *)
(***************************************************************************)

\* The three authentication failure kinds, and success, read off the request.
NoSession == req.sessErr
NoCookie == ~req.sessErr /\ req.jwt.kind # "string"
VerificationFailed == ~req.sessErr /\ req.jwt.kind = "string" /\ ~req.jwt.idp
Verified == ~req.sessErr /\ req.jwt.kind = "string" /\ req.jwt.idp
VerifiedCtx == [has |-> TRUE, authToken |-> [nil |-> FALSE, raw |-> req.jwt]]

\* What the API variant owes every request, and what the page variant owes
\* every request but one whose token failed verification.
AuthMappingButAutologin ==
    /\ mw = "User" =>
         /\ (NoSession \/ NoCookie \/ VerificationFailed) =>
                w.status = StatusUnauthorized /\ nextCalls = 0
         /\ nextCalls > 0 => Verified /\ ctx = VerifiedCtx
    /\ mw = "UserPage" =>
         /\ (NoSession \/ NoCookie) => w.location = "/auth" /\ nextCalls = 0
         /\ VerificationFailed => w.status = StatusSeeOther /\ nextCalls = 0
         /\ nextCalls > 0 => Verified /\ ctx = VerifiedCtx

\* C1 as stated: every authentication failure maps to its fixed response (API:
\* 401 for all three; page: redirect to /auth for no session and no cookie,
\* 303 to /autologin?directto=<request path> for a failed verification), the
\* wrapped handler runs only after a successful verification, and then the
\* context carries the verified token.
C1_AsStated ==
    /\ AuthMappingButAutologin
    /\ (mw = "UserPage" /\ VerificationFailed) =>
            w.location = "/autologin?directto=" \o req.path

\* C1 amended: as C1, but the page variant's 303 goes to
\* /autologin?directto=<request path> only for a non-empty request path, and
\* to /autologin?directto=/profile/home for an empty one.
C1_AuthFailureMapping ==
    /\ AuthMappingButAutologin
    /\ (mw = "UserPage" /\ VerificationFailed) =>
            w.location = "/autologin?directto=" \o
                         (IF req.path = "" THEN "/profile/home" ELSE req.path)

\* A page request with an empty path whose token failed verification was answered.
C1_Witness ==
    /\ mw = "UserPage"
    /\ VerificationFailed
    /\ req.path = ""
    /\ w.status = StatusSeeOther
    /\ nextCalls = 0

\* C2: AdminAuthenticatedMiddleware invokes the wrapped handler exactly when
\* the session holds a string under "jwt" that is a valid token with IsAdmin
\* set; every other request is redirected to /auth without the handler being
\* invoked; there is no third outcome.
C2_AdminOnly ==
    mw = "Admin" =>
        IF ~req.sessErr /\ req.jwt.kind = "string" /\ req.jwt.form = "admin"
        THEN nextCalls = 1 /\ w.location = "" /\ ~panicked
        ELSE nextCalls = 0 /\ w.location = "/auth" /\ ~panicked

\* C3: outside development a request whose X-Forwarded-Proto is not https is
\* answered with a 301 to https://<host><path> and not passed on; otherwise no
\* redirect is written and the wrapped handler is invoked exactly once.
C3_ForcesHTTPS ==
    mw = "HTTPS" =>
        IF mwEnv # "dev" /\ req.proto # "https"
        THEN /\ w.status = StatusMovedPermanently
             /\ w.location = "https://" \o req.host \o req.path
             /\ nextCalls = 0
        ELSE w.location = "" /\ nextCalls = 1

\* C5: a reload by the watcher goroutine that fails to parse leaves the
\* process running (the failure is only logged); the process dies of a parse
\* failure only in NewTemplate, before any template set is active.
C5_ReloadFailureOnlyLogged ==
    /\ lastReload = "failed" => proc = "running"
    /\ proc = "crashed" => templates = 0

\* C7: every Render executes against a complete template set, the previous
\* one or the newly parsed one, never a nil or partially built one; and
\* outside development there is no watcher goroutine and the active set stays
\* the one NewTemplate parsed.
C7_RenderSeesCompleteSet ==
    /\ \A r \in Renders :
          rpc[r] # "idle" => rset[r].ptr # 0 /\ rset[r].view = "complete"
    /\ tEnv # "dev" => ~watching /\ (proc = "running" => templates = 1)

IsLookup == last.op \in {"GetUser", "GetOrCreateUserFromToken", "GetUserTypeByEmail"}

\* The lookup's result is empty: a nil *User, a zero User, an empty type.
EmptyResult ==
    CASE last.op = "GetUser" -> ~last.ret.found
      [] last.op = "GetOrCreateUserFromToken" -> last.ret.u = ZeroUser
      [] last.op = "GetUserTypeByEmail" -> last.ret.userType = ""

\* C6: for GetUser, GetOrCreateUserFromToken and GetUserTypeByEmail a lookup
\* that ends on a query matching no rows returns an empty result and a nil
\* error, and every other database error comes back to the caller as it is.
C6_NoRowsIsNil ==
    IsLookup =>
        /\ last.qerrs[Len(last.qerrs)] = ErrNoRows =>
                last.ret.err = "nil" /\ EmptyResult
        /\ (\E i \in 1..Len(last.qerrs) : last.qerrs[i] = ErrDriver) =>
                last.ret.err = ErrDriver

PairedWith(t) == {s \in user_sign_on_token : s.token = t}
UsersOf(s) == {row \in last.pre : row.email = Val(s.email)}

\* C9: GetOrCreateUserFromToken(token), the driver reporting no error: when a
\* user exists for the token's email it returns that user's id, email,
\* created-at and type with existed = TRUE and inserts nothing; when none
\* exists it inserts exactly one users row with the email and user type
\* paired with the token and returns that user with existed = FALSE.  On any
\* error it returns existed = FALSE and leaves users as it was.
C9_GetOrCreate ==
    last.op = "GetOrCreateUserFromToken" =>
        /\ last.ret.err # "nil" => ~last.ret.existed /\ users = last.pre
        /\ \A s \in PairedWith(last.arg.token) :
              (\A i \in 1..Len(last.qerrs) : last.qerrs[i] # ErrDriver) =>
                 IF UsersOf(s) # {}
                 THEN /\ last.ret.err = "nil"
                      /\ last.ret.existed
                      /\ users = last.pre
                      /\ \E row \in UsersOf(s) :
                            /\ last.ret.u.ID = row.id.V
                            /\ last.ret.u.Email = row.email.V
                            /\ last.ret.u.CreatedAt = row.created_at.V
                            /\ last.ret.u.Type = row.user_type.V
                 ELSE /\ last.ret.err = "nil"
                      /\ ~last.ret.existed
                      /\ \E row \in users \ last.pre :
                            /\ users = last.pre \cup {row}
                            /\ row.email = Val(s.email)
                            /\ row.user_type = Val(s.user_type)
                            /\ last.ret.u.ID = row.id.V
                            /\ last.ret.u.Email = s.email
                            /\ last.ret.u.Type = s.user_type

\* C10: after a successful CreateUser(u) and any UpdateAccessToken and
\* UpdateRefreshToken calls, GetUser(u.ID) returns u in every persisted field
\* (id, email, email-verified, type, created-at, expiration time) with the
\* access and refresh token of the latest update addressed to u.ID.
C10_CreateFetchRoundTrip ==
    (last.op = "GetUser" /\ last.ret.err = "nil" /\ track[last.arg.user_id].on) =>
        last.ret.found /\ last.ret.u = track[last.arg.user_id].u

\* C8: GetUserTypeByEmail(email), the driver reporting no error: when users
\* has a row with the email it returns a user_type stored there and consults
\* no profile table; otherwise "recruiter" if recruiter_profile has the email,
\* otherwise "developer" if developer_profile has it, otherwise the empty
\* type.
C8_UserTypeByEmail ==
    (/\ last.op = "GetUserTypeByEmail"
     /\ \A i \in 1..Len(last.qerrs) : last.qerrs[i] # ErrDriver) =>
        LET email == last.arg.email
            rows == Where("email", email)
        IN  IF rows # {}
            THEN /\ last.ret.userType \in {row.user_type.V : row \in rows}
                 /\ Len(last.qerrs) = 1
            ELSE IF email \in recruiter_profile THEN last.ret.userType = "recruiter"
            ELSE IF email \in developer_profile THEN last.ret.userType = "developer"
            ELSE last.ret.userType = ""

\* The lookup missed users and found the email in both profile tables.
C8_Witness ==
    /\ last.op = "GetUserTypeByEmail"
    /\ Where("email", last.arg.email) = {}
    /\ last.arg.email \in recruiter_profile \cap developer_profile
    /\ last.qerrs = <<ErrNoRows, "nil">>
    /\ last.ret.userType = "recruiter"

====
